---- MODULE Spec2Model ----
(***************************************************************************)
(* daisy: ltree_to_dask, the conversion of a lazy call tree (lazy.tree     *)
(* LTree: Normal and Call nodes) into a dask task graph, with the scope    *)
(* dictionary that folds common subexpressions.                            *)
(*                                                                         *)
(* The recursion of _ltree_to_dask is modelled with an explicit stack of   *)
(* Call-rule frames. Nodes live in an arena: a node is its index in        *)
(* `tree`, so that the scope dictionary is keyed by node identity, and a   *)
(* node's children have smaller indices (the input is a finite DAG).       *)
(***************************************************************************)
EXTENDS Integers, Sequences, FiniteSets, TLC

(* ------------------------------ bounds --------------------------------- *)
MaxNodes == 3
MaxArgs == 2
MaxKw == 2
MaxValue == 1

Values == 0..MaxValue
Names == 1..MaxKw

(* ------------------------- the input: LTree nodes ---------------------- *)
SeqsUpTo(S, n) == UNION {[1..m -> S] : m \in 0..n}

Range(s) == {s[i] : i \in DOMAIN s}

DistinctNames(kw) == \A i, j \in DOMAIN kw : i # j => kw[i][1] # kw[j][1]

\* a dict of keyword arguments in its iteration order: <<name, node>> pairs
KwSeqs(c) == {kw \in SeqsUpTo(Names \X (1..c), MaxKw) : DistinctNames(kw)}

NormalNodes ==
    {[kind |-> "Normal", value |-> v, func |-> 0, args |-> <<>>, kwargs |-> <<>>] :
        v \in Values}

\* an LTree node of a class no rule is registered for
OtherNodes ==
    {[kind |-> "Other", value |-> 0, func |-> 0, args |-> <<>>, kwargs |-> <<>>]}

CallNodes(c) ==
    {[kind |-> "Call", value |-> 0, func |-> f, args |-> a, kwargs |-> kw] :
        f \in 1..c, a \in SeqsUpTo(1..c, MaxArgs), kw \in KwSeqs(c)}

NodesOver(c) == NormalNodes \cup OtherNodes \cup CallNodes(c)

RECURSIVE Arenas(_)
Arenas(n) ==
    IF n = 0 THEN {<<>>}
    ELSE {Append(t, x) : t \in Arenas(n - 1), x \in NodesOver(n - 1)}

KwNodes(nd) == [i \in DOMAIN nd.kwargs |-> nd.kwargs[i][2]]
KwNames(nd) == [i \in DOMAIN nd.kwargs |-> nd.kwargs[i][1]]

\* the terms the Call rule retrieves, in the order the tuple evaluates them
Terms(nd) == <<nd.func>> \o nd.args \o KwNodes(nd)

Children(t, n) == IF t[n].kind = "Call" THEN Range(Terms(t[n])) ELSE {}

RECURSIVE ReachIn(_, _)
ReachIn(t, n) == {n} \cup UNION {ReachIn(t, c) : c \in Children(t, n)}

Inputs ==
    {t \in UNION {Arenas(n) : n \in 1..MaxNodes} : ReachIn(t, Len(t)) = 1..Len(t)}

(* ------------------------------- state --------------------------------- *)
VARIABLES
    tree,       \* the arena of LTree nodes handed to ltree_to_dask
    pc,         \* "start", "run", "done", "failed"
    dask,       \* the task graph: key -> descriptor
    scope,      \* node -> key
    stack,      \* active Call-rule frames, innermost last
    disp,       \* the node _ltree_to_dask was just called with, 0 if none
    ret,        \* the key a rule just returned, NoKey if none
    uuid,       \* number of uuid4() values drawn so far
    returned,   \* what ltree_to_dask returned: {} or {<<dask, key>>}
    raised,     \* the exception that left ltree_to_dask, "" if none
    ruleCalls,  \* history: node -> number of times a rule ran for it
    origin      \* history: key -> node whose rule inserted the entry

vars == <<tree, pc, dask, scope, stack, disp, ret, uuid, returned, raised,
          ruleCalls, origin>>

root == Len(tree)

NoKey == <<0, 0>>

\* str(uuid4()) and '%s-%s' % (node.func, uuid4()): the callee as a prefix
\* (0 for none) and the number of the uuid drawn
NormalKey(u) == <<0, u>>
CallKey(nd, u) == <<nd.func, u>>

Literal(v) ==
    [type |-> "Literal", value |-> v, func |-> NoKey, args |-> <<>>, kwargs |-> <<>>]

Put(m, k, v) == [x \in DOMAIN m \cup {k} |-> IF x = k THEN v ELSE m[x]]

Empty == [x \in {} |-> 0]

Init ==
    /\ tree \in Inputs
    /\ pc = "start"
    /\ dask = Empty
    /\ scope = Empty
    /\ stack = <<>>
    /\ disp = 0
    /\ ret = NoKey
    /\ uuid = 0
    /\ returned = {}
    /\ raised = ""
    /\ ruleCalls = [n \in 1..Len(tree) |-> 0]
    /\ origin = Empty

\* ltree_to_dask: fresh dask and scope, then _ltree_to_dask(node, dask, scope)
Compile ==
    /\ pc = "start"
    /\ pc' = "run"
    /\ dask' = Empty
    /\ scope' = Empty
    /\ disp' = root
    /\ UNCHANGED <<tree, stack, ret, uuid, returned, raised, ruleCalls, origin>>

\* a lookup that always raises KeyError: nothing is ever found in scope
InScopeNever(t) == FALSE

\* scope[term] succeeds (no KeyError)
InScope(t) == t \in DOMAIN scope

\* the assignment lost: the key is returned, scope is left as it was
MemoDropped(t, k) == scope

\* scope[term] = ret
Memo(t, k) == Put(scope, t, k)

Top == stack[Len(stack)]

Pop == SubSeq(stack, 1, Len(stack) - 1)

\* the term the innermost Call rule is about to retrieve
NextTerm(f) == Terms(tree[f.node])[Len(f.keys) + 1]

Resolved(f) == Len(f.keys) = Len(Terms(tree[f.node]))

\* retrieve(term) hands its key to the tuple under construction
Resolve(k) == [stack EXCEPT ![Len(stack)].keys = Append(@, k)]

\* the callee node itself put in the task instead of its key
ApplyTaskRawCallee(nd, keys) ==
    [type |-> "Apply", value |-> 0,
     func |-> <<nd.func, 0>>,
     args |-> SubSeq(keys, 2, 1 + Len(nd.args)),
     kwargs |-> [i \in DOMAIN nd.kwargs |->
                    <<nd.kwargs[i][1], keys[1 + Len(nd.args) + i]>>]]

\* the keyword values left as nodes: node.kwargs without valmap(retrieve, ...)
ApplyTaskRawKwargs(nd, keys) ==
    [type |-> "Apply", value |-> 0,
     func |-> keys[1],
     args |-> SubSeq(keys, 2, 1 + Len(nd.args)),
     kwargs |-> [i \in DOMAIN nd.kwargs |-> <<nd.kwargs[i][1], <<nd.kwargs[i][2], 0>>>>]]

\* the positional keys put in the task in reverse order
ApplyTaskReversed(nd, keys) ==
    [type |-> "Apply", value |-> 0,
     func |-> keys[1],
     args |-> [i \in DOMAIN nd.args |-> keys[2 + Len(nd.args) - i]],
     kwargs |-> [i \in DOMAIN nd.kwargs |->
                    <<nd.kwargs[i][1], keys[1 + Len(nd.args) + i]>>]]

\* <<name, x>> pairs in ascending order of name
SortByName(pairs) ==
    [i \in DOMAIN pairs |->
        CHOOSE p \in Range(pairs) :
            Cardinality({q \in Range(pairs) : q[1] < p[1]}) = i - 1]

\* the keyword pairs put in the task sorted by name
ApplyTaskSortedKw(nd, keys) ==
    [type |-> "Apply", value |-> 0,
     func |-> keys[1],
     args |-> SubSeq(keys, 2, 1 + Len(nd.args)),
     kwargs |-> SortByName([i \in DOMAIN nd.kwargs |->
                    <<nd.kwargs[i][1], keys[1 + Len(nd.args) + i]>>])]

\* (apply, retrieve(func), [retrieve(a) ...], (dict, [[k, retrieve(v)] ...]))
ApplyTask(nd, keys) ==
    [type |-> "Apply", value |-> 0,
     func |-> keys[1],
     args |-> SubSeq(keys, 2, 1 + Len(nd.args)),
     kwargs |-> [i \in DOMAIN nd.kwargs |->
                    <<nd.kwargs[i][1], keys[1 + Len(nd.args) + i]>>]]

\* the Normal rule: scope[node], else a fresh key bound to node.value
NormalRule ==
    /\ pc = "run" /\ disp # 0
    /\ tree[disp].kind = "Normal"
    /\ IF InScope(disp)
       THEN /\ ret' = scope[disp]
            /\ UNCHANGED <<dask, uuid, origin>>
       ELSE /\ uuid' = uuid + 1
            /\ dask' = Put(dask, NormalKey(uuid'), Literal(tree[disp].value))
            /\ origin' = Put(origin, NormalKey(uuid'), disp)
            /\ ret' = NormalKey(uuid')
    /\ disp' = 0
    /\ ruleCalls' = [ruleCalls EXCEPT ![disp] = @ + 1]
    /\ UNCHANGED <<tree, pc, scope, stack, returned, raised>>

\* the node memoized under its name on entry, before its terms are retrieved
CallRuleEnterMemoFirst ==
    /\ pc = "run" /\ disp # 0
    /\ tree[disp].kind = "Call"
    /\ uuid' = uuid + 1
    /\ stack' = Append(stack,
                  [node |-> disp, name |-> CallKey(tree[disp], uuid'), keys |-> <<>>])
    /\ scope' = Put(scope, disp, CallKey(tree[disp], uuid'))
    /\ disp' = 0
    /\ ruleCalls' = [ruleCalls EXCEPT ![disp] = @ + 1]
    /\ UNCHANGED <<tree, pc, dask, ret, returned, raised, origin>>

\* the Call rule up to its name: name = '%s-%s' % (node.func, uuid4())
CallRuleEnter ==
    /\ pc = "run" /\ disp # 0
    /\ tree[disp].kind = "Call"
    /\ uuid' = uuid + 1
    /\ stack' = Append(stack,
                  [node |-> disp, name |-> CallKey(tree[disp], uuid'), keys |-> <<>>])
    /\ disp' = 0
    /\ ruleCalls' = [ruleCalls EXCEPT ![disp] = @ + 1]
    /\ UNCHANGED <<tree, pc, dask, scope, ret, returned, raised, origin>>

\* a default dispatch that stores the node as if it were a value
NoRuleAsLiteral ==
    /\ pc = "run" /\ disp # 0
    /\ tree[disp].kind = "Other"
    /\ uuid' = uuid + 1
    /\ dask' = Put(dask, NormalKey(uuid'), Literal(tree[disp].value))
    /\ origin' = Put(origin, NormalKey(uuid'), disp)
    /\ ret' = NormalKey(uuid')
    /\ disp' = 0
    /\ ruleCalls' = [ruleCalls EXCEPT ![disp] = @ + 1]
    /\ UNCHANGED <<tree, pc, scope, stack, returned, raised>>

\* the default dispatch: NotImplementedError leaves every active frame
NoRule ==
    /\ pc = "run" /\ disp # 0
    /\ tree[disp].kind = "Other"
    /\ raised' = "NotImplementedError"
    /\ pc' = "failed"
    /\ stack' = <<>>
    /\ disp' = 0
    /\ ruleCalls' = [ruleCalls EXCEPT ![disp] = @ + 1]
    /\ UNCHANGED <<tree, dask, scope, ret, uuid, returned, origin>>

\* retrieve(term): return scope[term]
RetrieveHit ==
    /\ pc = "run" /\ disp = 0 /\ ret = NoKey
    /\ stack # <<>> /\ ~Resolved(Top)
    /\ InScope(NextTerm(Top))
    /\ stack' = Resolve(scope[NextTerm(Top)])
    /\ UNCHANGED <<tree, pc, dask, scope, disp, ret, uuid, returned, raised,
                   ruleCalls, origin>>

\* retrieve(term): KeyError, so call _ltree_to_dask(term, dask, scope)
RetrieveMiss ==
    /\ pc = "run" /\ disp = 0 /\ ret = NoKey
    /\ stack # <<>> /\ ~Resolved(Top)
    /\ ~InScope(NextTerm(Top))
    /\ disp' = NextTerm(Top)
    /\ UNCHANGED <<tree, pc, dask, scope, stack, ret, uuid, returned, raised,
                   ruleCalls, origin>>

\* retrieve(term): scope[term] = ret = _ltree_to_dask(...); return ret
RetrieveStore ==
    /\ pc = "run" /\ disp = 0 /\ ret # NoKey
    /\ stack # <<>>
    /\ scope' = Memo(NextTerm(Top), ret)
    /\ stack' = Resolve(ret)
    /\ ret' = NoKey
    /\ UNCHANGED <<tree, pc, dask, disp, uuid, returned, raised, ruleCalls, origin>>

\* the Call rule once the tuple is built: dask[name] = ...; scope[node] = name
CallRuleFinish ==
    /\ pc = "run" /\ disp = 0 /\ ret = NoKey
    /\ stack # <<>> /\ Resolved(Top)
    /\ dask' = Put(dask, Top.name, ApplyTask(tree[Top.node], Top.keys))
    /\ origin' = Put(origin, Top.name, Top.node)
    /\ scope' = Put(scope, Top.node, Top.name)
    /\ ret' = Top.name
    /\ stack' = Pop
    /\ UNCHANGED <<tree, pc, disp, uuid, returned, raised, ruleCalls>>

\* ltree_to_dask: return dask, <the key of the root>
Return ==
    /\ pc = "run" /\ disp = 0 /\ ret # NoKey
    /\ stack = <<>>
    /\ returned' = {<<dask, ret>>}
    /\ pc' = "done"
    /\ ret' = NoKey
    /\ UNCHANGED <<tree, dask, scope, stack, disp, uuid, raised, ruleCalls, origin>>

Next ==
    \/ Compile
    \/ NormalRule
    \/ CallRuleEnter
    \/ NoRule
    \/ RetrieveHit
    \/ RetrieveMiss
    \/ RetrieveStore
    \/ CallRuleFinish
    \/ Return

Spec == Init /\ [][Next]_vars

\* one thread runs the conversion to its end
FairSpec == Spec /\ WF_vars(Next)

(* --------------------------- the returned pair -------------------------- *)
Reach == ReachIn(tree, root)

Graph == (CHOOSE r \in returned : TRUE)[1]

RootKey == (CHOOSE r \in returned : TRUE)[2]

Done == pc = "done" /\ returned # {}

KwKeys(d) == [i \in DOMAIN d.kwargs |-> d.kwargs[i][2]]

\* the keys a task refers to: callee, positional, keyword, in that order
DepSeq(d) == IF d.type = "Apply" THEN <<d.func>> \o d.args \o KwKeys(d) ELSE <<>>

Deps(d) == Range(DepSeq(d))

\* the graph entries inserted for node n
EntriesOf(g, n) == {k \in DOMAIN g : origin[k] = n}

RECURSIVE SumOver(_, _)
SumOver(f, S) ==
    IF S = {} THEN 0
    ELSE LET x == CHOOSE y \in S : TRUE IN f[x] + SumOver(f, S \ {x})

\* occurrences of node n among the terms of node m
Uses(m, n) ==
    IF tree[m].kind = "Call"
    THEN Cardinality({i \in DOMAIN Terms(tree[m]) : Terms(tree[m])[i] = n})
    ELSE 0

\* number of distinct paths from the root to node n
RECURSIVE PathsTo(_)
PathsTo(n) ==
    IF n = root THEN 1
    ELSE SumOver([m \in (n + 1)..root |-> Uses(m, n) * PathsTo(m)], (n + 1)..root)

Shared(n) == PathsTo(n) >= 2

\* node occurrences in the tree flattened from node n, sharing ignored
RECURSIVE Occurrences(_)
Occurrences(n) ==
    IF tree[n].kind = "Call"
    THEN 1 + SumOver([i \in DOMAIN Terms(tree[n]) |-> Occurrences(Terms(tree[n])[i])],
                     DOMAIN Terms(tree[n]))
    ELSE 1

(* ------------------------------- claims --------------------------------- *)

\* C1: in the returned graph a node reached from the root along two or more
\* paths has exactly one entry, and every task of a node that uses it refers
\* to that entry's key at each position where the node occurs.
C1_SharedNodeOneEntry ==
    Done =>
        \A n \in Reach : Shared(n) =>
            /\ Cardinality(EntriesOf(Graph, n)) = 1
            /\ \A k \in DOMAIN Graph :
                 \A i \in DOMAIN DepSeq(Graph[k]) :
                    Terms(tree[origin[k]])[i] = n => {DepSeq(Graph[k])[i]} = EntriesOf(Graph, n)

C1_Witness ==
    /\ Done
    /\ \E n \in Reach : Shared(n) /\ tree[n].kind = "Call"
    /\ \E n \in Reach : Shared(n) /\ tree[n].kind = "Normal"

\* C2: the returned graph has as many entries as there are distinct nodes
\* reachable from the root, at most the number of node occurrences of the
\* flattened tree; a bare Normal root gives one Literal entry under the root key.
C2_EntryCount ==
    Done =>
        /\ Cardinality(DOMAIN Graph) = Cardinality(Reach)
        /\ Cardinality(DOMAIN Graph) <= Occurrences(root)
        /\ tree[root].kind = "Normal" =>
              /\ DOMAIN Graph = {RootKey}
              /\ Graph[RootKey] = Literal(tree[root].value)

C2_Witness ==
    /\ Done
    /\ Cardinality(DOMAIN Graph) = MaxNodes
    /\ Cardinality(DOMAIN Graph) < Occurrences(root)

\* C3: every key a task of the returned graph refers to is a key of that
\* graph, and so is the returned root key.
C3_Closed ==
    Done =>
        /\ \A k \in DOMAIN Graph : Deps(Graph[k]) \subseteq DOMAIN Graph
        /\ RootKey \in DOMAIN Graph

C3_Witness ==
    /\ Done
    /\ \E k \in DOMAIN Graph :
          /\ Graph[k].type = "Apply"
          /\ Graph[k].args # <<>>
          /\ Graph[k].kwargs # <<>>

(* ------------- values: the source tree and the task graph --------------- *)
\* Values are written as sequences of integers. A Normal's value v is <<v>>;
\* a call is an uninterpreted application, written out with its callee, its
\* positional arguments in order and its keyword arguments as a dict (by name).
Val(v) == <<v>>

RECURSIVE Positional(_)
Positional(args) ==
    IF args = <<>> THEN <<>>
    ELSE <<-3>> \o Head(args) \o Positional(Tail(args))

RECURSIVE Keyword(_)
Keyword(kw) ==
    IF DOMAIN kw = {} THEN <<>>
    ELSE LET n == CHOOSE x \in DOMAIN kw : \A y \in DOMAIN kw : x <= y
         IN <<-4, n>> \o kw[n] \o Keyword([y \in DOMAIN kw \ {n} |-> kw[y]])

\* func(*args, **kwargs)
Invoke(f, args, kw) == <<-1>> \o f \o Positional(args) \o Keyword(kw) \o <<-2>>

\* dict([[name, value], ...]): a later pair replaces an earlier one
DictOf(pairs) ==
    [n \in {pairs[i][1] : i \in DOMAIN pairs} |->
        pairs[CHOOSE i \in DOMAIN pairs :
                /\ pairs[i][1] = n
                /\ \A j \in DOMAIN pairs : pairs[j][1] = n => j <= i][2]]

\* the value of the source tree at node n, evaluated directly
RECURSIVE EvalTree(_)
EvalTree(n) ==
    LET nd == tree[n] IN
    IF nd.kind = "Normal" THEN Val(nd.value)
    ELSE Invoke(EvalTree(nd.func),
                [i \in DOMAIN nd.args |-> EvalTree(nd.args[i])],
                DictOf([i \in DOMAIN nd.kwargs |->
                          <<nd.kwargs[i][1], EvalTree(nd.kwargs[i][2])>>]))

\* the reference executor: a Literal is its value; an Apply applies the value
\* of its callee key to the values of its argument keys
RECURSIVE Exec(_, _)
Exec(g, k) ==
    LET d == g[k] IN
    IF d.type = "Literal" THEN Val(d.value)
    ELSE Invoke(Exec(g, d.func),
                [i \in DOMAIN d.args |-> Exec(g, d.args[i])],
                DictOf([i \in DOMAIN d.kwargs |->
                          <<d.kwargs[i][1], Exec(g, d.kwargs[i][2])>>]))

\* C4: the reference executor run on the returned graph from the returned
\* root key gives the value of the source tree evaluated from its root.
C4_RoundTrip == Done => Exec(Graph, RootKey) = EvalTree(root)

C4_Witness ==
    /\ Done
    /\ tree[root].kind = "Call"
    /\ Len(tree[root].args) = 2
    /\ EvalTree(tree[root].args[1]) # EvalTree(tree[root].args[2])
    /\ Len(tree[root].kwargs) = 2

IsSorted(names) == \A i, j \in DOMAIN names : i < j => names[i] < names[j]

TaskNames(d) == [i \in DOMAIN d.kwargs |-> d.kwargs[i][1]]

\* C5 as stated: the keyword pairs of every Apply task are sorted by name.
C5_SortedByName ==
    \A k \in DOMAIN dask : IsSorted(TaskNames(dask[k]))

\* C5 as amended: the keyword pairs of every Apply task are in the iteration
\* order of the keyword mapping of the Call it was built from, unsorted.
C5_IterationOrder ==
    \A k \in DOMAIN dask :
        dask[k].type = "Apply" => TaskNames(dask[k]) = KwNames(tree[origin[k]])

C5_Witness ==
    \E k \in DOMAIN dask :
        /\ Len(dask[k].kwargs) = 2
        /\ ~IsSorted(TaskNames(dask[k]))

Registered(n) == tree[n].kind \in {"Normal", "Call"}

AllRegistered == \A n \in Reach : Registered(n)

\* C6: when a node reachable from the root has no registered rule,
\* ltree_to_dask returns nothing: it can only end failed, with the
\* NotImplementedError raised to its caller, however many entries were put
\* in dask before; whatever it does return is a closed graph.
C6_FailsWhole ==
    /\ ~AllRegistered =>
          /\ returned = {}
          /\ pc # "done"
          /\ ~ENABLED Next => pc = "failed"
    /\ pc = "failed" => returned = {} /\ raised = "NotImplementedError"
    /\ returned # {} =>
          /\ pc = "done" /\ raised = ""
          /\ \A k \in DOMAIN Graph : Deps(Graph[k]) \subseteq DOMAIN Graph

C6_Witness ==
    /\ pc = "failed"
    /\ returned = {}
    /\ DOMAIN dask # {}
    /\ tree[root].kind = "Call" /\ ruleCalls[root] = 1

\* a rule's key is being handed back to the caller of _ltree_to_dask
Handing == pc = "run" /\ disp = 0 /\ ret # NoKey

\* retrieve is about to look up a term that scope maps
Hitting ==
    /\ pc = "run" /\ disp = 0 /\ ret = NoKey
    /\ stack # <<>> /\ ~Resolved(Top)
    /\ NextTerm(Top) \in DOMAIN scope

HitStep ==
    Hitting =>
        /\ stack' = Resolve(scope[NextTerm(Top)])
        /\ UNCHANGED <<dask, scope, ruleCalls, uuid>>

KeptStep == \A n \in DOMAIN scope : n \in DOMAIN scope' /\ scope'[n] = scope[n]

\* C7 as stated: a resolution of a mapped node returns the mapped key and
\* changes neither dask nor scope and runs no rule; a resolution of an
\* unmapped node stores the key the rule returned under the node; no mapping
\* of scope is ever replaced.
C7_AllResolutionsStored ==
    [][/\ HitStep
       /\ Handing => origin[ret] \in DOMAIN scope' /\ scope'[origin[ret]] = ret
       /\ KeptStep]_vars

\* C7 as amended: the same for every resolution made by retrieve (callee,
\* positional and keyword terms); the root is dispatched by ltree_to_dask
\* itself, which stores nothing, so a Normal root is never put in scope.
C7_RetrieveStores ==
    [][/\ HitStep
       /\ (Handing /\ stack # <<>>) =>
             /\ origin[ret] = NextTerm(Top)
             /\ origin[ret] \in DOMAIN scope' /\ scope'[origin[ret]] = ret
             /\ stack' = Resolve(ret)
       /\ (Handing /\ stack = <<>>) =>
             /\ origin[ret] = root
             /\ scope' = scope
             /\ tree[root].kind = "Normal" => scope' = Empty
       /\ KeptStep]_vars

C7_Witness ==
    /\ pc = "run" /\ stack # <<>>
    /\ \E i, j \in DOMAIN Top.keys : i < j /\ Top.keys[i] = Top.keys[j]
    /\ \E n \in DOMAIN scope : tree[n].kind = "Call"

\* C8: when every reachable node is of a registered class, ltree_to_dask
\* returns, having run a rule exactly once for each reachable node, and at
\* no time has a rule run twice for a node.
C8_ReturnsOncePerNode ==
    AllRegistered =>
        /\ [](\A n \in Reach : ruleCalls[n] <= 1)
        /\ <>(Done /\ \A n \in Reach : ruleCalls[n] = 1)

C8_Witness ==
    /\ Done
    /\ \E n \in Reach : Shared(n) /\ ruleCalls[n] = 1
    /\ Cardinality(Reach) = MaxNodes

RECURSIVE Peels(_, _)
Peels(g, S) ==
    IF S = {} THEN TRUE
    ELSE LET free == {k \in S : Deps(g[k]) \cap S = {}}
         IN IF free = {} THEN FALSE ELSE Peels(g, S \ free)

\* no entry of g reaches itself through the keys it refers to
Acyclic(g) == Peels(g, DOMAIN g)

\* C9: an entry is put in dask only when every key it refers to is already
\* an entry, so dask is closed and acyclic in every state.
C9_DependenciesFirst ==
    [][/\ \A k \in DOMAIN dask' :
            (k \notin DOMAIN dask \/ dask'[k] # dask[k]) =>
                Deps(dask'[k]) \subseteq DOMAIN dask
       /\ \A k \in DOMAIN dask' : Deps(dask'[k]) \subseteq DOMAIN dask'
       /\ Acyclic(dask')]_vars

C9_Witness ==
    /\ pc = "run"
    /\ Len(stack) = 1
    /\ \E k \in DOMAIN dask : dask[k].type = "Apply" /\ Len(DepSeq(dask[k])) >= 2

\* C10 as stated: a Call holds a key only once all its terms are resolved,
\* and the key of a task was drawn after the keys of all the tasks it
\* refers to.
C10_KeyAfterDependencies ==
    /\ \A i \in DOMAIN stack : Resolved(stack[i])
    /\ \A k \in DOMAIN dask : \A d \in Deps(dask[k]) : d[2] < k[2]

\* C10 as amended: the Call rule draws its key on entry, before any of its
\* terms is retrieved, so the key of a Call is drawn before the keys of the
\* nodes compiled beneath it; the key is bound in dask and in scope only
\* when the rule ends, after every term is resolved.
C10_KeyOnEntry ==
    /\ \A i \in DOMAIN stack :
          /\ stack[i].name[2] \in 1..uuid
          /\ stack[i].name \notin DOMAIN dask
          /\ stack[i].node \notin DOMAIN scope
          /\ \A n \in DOMAIN scope : scope[n] # stack[i].name
          /\ \A j \in DOMAIN stack : i < j => stack[i].name[2] < stack[j].name[2]
          /\ \A k \in DOMAIN origin :
                k[2] > stack[i].name[2] =>
                    origin[k] \in ReachIn(tree, stack[i].node) \ {stack[i].node}
    /\ \A k \in DOMAIN dask :
          dask[k].type = "Apply" => Len(DepSeq(dask[k])) = Len(Terms(tree[origin[k]]))
    /\ (Done /\ tree[root].kind = "Call") =>
          /\ RootKey[2] = 1
          /\ \A d \in Deps(Graph[RootKey]) : RootKey[2] < d[2]

C10_Witness ==
    /\ Len(stack) = 2
    /\ ~Resolved(stack[1])
    /\ stack[2].keys # <<>>
====
